---- MODULE Spec2Model ----
(***************************************************************************)
(* A model of pkg/shalm/chart.go: the chart runtime object's apply/delete  *)
(* cascade over its sub-charts and jewels, and the jewel's lazy lifecycle  *)
(* (read / ensure / Attr / templateValues / delete); the chart object's    *)
(* attributes (Attr / SetField), Hash and mergeValues; the __apply and     *)
(* __delete hooks; and the vault that keeps a byte-map in a cluster secret *)
(* (vaultK8s.Write / Read).                                                *)
(*                                                                         *)
(* A []byte is modelled as a TLA+ string of its bytes; a map[string][]byte *)
(* as a function from the keys it holds to such strings (a key that is not *)
(* in the DOMAIN reads as the nil slice).  An error is a record naming    *)
(* what failed (kind) and where (at); Nil is Go's nil error.               *)
(***************************************************************************)
EXTENDS Integers, Sequences, FiniteSets, TLC

\* ------------------------------------------------------------------ bounds
MaxCharts == 3      \* charts in the tree (chart 1 is the root)
MaxJewels == 2      \* jewels held in the charts' values
MaxCalls  == 3      \* backend calls counted on a jewel between two reads
MaxGens   == 2      \* backend calls counted on a jewel that start from the empty payload
MaxSets   == 3      \* operations of a script that change the chart object

\* --------------------------------------------------------- program constants
stateInit   == 0
stateLoaded == 1
stateReady  == 2
Half        == 65536         \* 2^16: a uint32 is two halves of 16 bits
HashSeed    == 8731
HashFactor  == 9839
HashStep    == 7349
KeyFactor   == 3

Charts  == 1..MaxCharts
Jewels  == 1..MaxJewels
Clients == {"k1", "k2"}

\* The values a chart holds that the cascade looks at: sub-charts and jewels.
ChartItem(c) == [t |-> "chart", id |-> c]
VaultItem(j) == [t |-> "vault", id |-> j]
Items == {ChartItem(c) : c \in Charts} \cup {VaultItem(j) : j \in Jewels}

\* ------------------------------------------------------------------ errors
Nil == [kind |-> "nil", at |-> 0, attr |-> ""]
Err(kind, at) == [kind |-> kind, at |-> at, attr |-> ""]
\* starlark.NoSuchAttrError("<backend> has no .<name> attribute")
NoSuchAttrError(of, name) == [kind |-> "nosuchattr:" \o of, at |-> 0, attr |-> name]

\* ---------------------------------------------------------------- payloads
EmptyData == [x \in {} |-> ""]
DataMaps  == { EmptyData, [x \in {"pwd"} |-> "s3cr3t"] }

\* JewelBackend.Keys(): user-facing field name -> internal payload key.
Keys == [password |-> "pwd", user |-> "usr"]
FieldNames == {"name", "password", "user", "token"}

\* What Vault.Read(name) can answer for jewel j.
ReadResults(j) ==
    {[data |-> d, err |-> Nil] : d \in DataMaps}
        \cup {[data |-> EmptyData, err |-> Err("notfound", j)],
              [data |-> EmptyData, err |-> Err("io", j)]}

\* What a backend operation (Apply, Template) can answer for jewel j.
BackendResults(j) ==
    {[data |-> d, err |-> Nil] : d \in DataMaps}
        \cup {[data |-> EmptyData, err |-> Err("backend", j)]}

\* What ComplexJewelBackend.Delete() and the cluster client can answer.
CallResults(kind, at) == {Nil, Err(kind, at)}

\* Vault.IsNotExist
IsNotExist(err) == err.kind = "notfound"

VARIABLES
    values,     \* values[c]: the sub-chart and jewel items chart c holds
    backend,    \* backend[j]: "simple" (JewelBackend) or "complex"
    jewel,      \* jewel[j] = [state, data]
    stack,      \* the call stack of the running cascade, innermost frame last
    top,        \* the top-level Chart.Apply / Chart.Delete call and its result
    did,        \* what the cascade has done since the top-level call began
    calls,      \* backend calls a script's accesses made on a jewel since its last read
    okCalls,    \* those of them that returned no error
    got,        \* got[n]: what the first successful access to field n since then returned
    out,        \* a script's last operation on a jewel: its input and what it returned
    life,       \* what a script's reads and accesses did to a jewel since NewJewel
    chart,      \* the root chart object: clazz, namespace, suffix, methods, named values
    ret,        \* a script's last operation on the chart object: its input and result
    vault,      \* the vaultK8s: its namespace and the namespace of its k8s reader
    cluster,    \* cluster[<<namespace, name>>]: the secret object stored there
    rw          \* the vault's last operation and what was written under each name

\* The cascade and the jewels / the chart object a script works on.
cascade == <<values, backend, jewel, stack, top, did, calls, okCalls, got, out, life>>
object == <<chart, ret>>
store == <<vault, cluster, rw>>

vars == <<values, backend, jewel, stack, top, did, calls, okCalls, got, out, life,
          chart, ret, vault, cluster, rw>>


\* ------------------------------------------------------------------- jewel
\* A starlark value returned by Attr: None, or a String.
None == [none |-> TRUE, s |-> ""]
String(s) == [none |-> FALSE, s |-> s]

NewJewel == [state |-> stateInit, data |-> EmptyData]

\* c.name of jewel j
JewelName(j) == "jewel" \o ToString(j)

\* c.data[key]: the slice held under key, nil when the key is absent
Lookup(data, key) ==
    IF key \in DOMAIN data THEN [nil |-> FALSE, b |-> data[key]]
                           ELSE [nil |-> TRUE, b |-> ""]

dataValue(x) == IF ~x.nil THEN x.b ELSE ""

\* read forgetting what the jewel holds when the secret is absent.
readResetOnMissing(jw, res) ==
    IF res.err # Nil
        THEN IF ~IsNotExist(res.err)
                THEN [jewel |-> jw, err |-> res.err]
                ELSE [jewel |-> NewJewel, err |-> Nil]
        ELSE [jewel |-> [state |-> stateLoaded, data |-> res.data], err |-> Nil]

\* read returning the not-found error like any other.
readMissingFails(jw, res) ==
    IF res.err # Nil
        THEN [jewel |-> jw, err |-> res.err]
        ELSE [jewel |-> [state |-> stateLoaded, data |-> res.data], err |-> Nil]

\* jewel.read, given what v.Read(c.name) answers
read(jw, res) ==
    IF res.err # Nil
        THEN IF ~IsNotExist(res.err)
                THEN [jewel |-> jw, err |-> res.err]
                ELSE [jewel |-> jw, err |-> Nil]
        ELSE [jewel |-> [state |-> stateLoaded, data |-> res.data], err |-> Nil]

\* ensure without the stateReady case: a Ready jewel is transformed again.
ensureOpAgain(jw, kind) ==
    CASE jw.state = stateInit -> IF kind = "complex" THEN "Template" ELSE "Apply"
      [] OTHER                -> "Apply"

\* ensure generating anew on a complex backend whatever the jewel holds.
ensureOpRegenerate(jw, kind) ==
    CASE jw.state = stateReady -> "none"
      [] OTHER                 -> IF kind = "complex" THEN "Template" ELSE "Apply"

\* The backend operation ensure invokes, and the payload it hands to it.
ensureOp(jw, kind) ==
    CASE jw.state = stateLoaded -> "Apply"
      [] jw.state = stateInit   -> IF kind = "complex" THEN "Template" ELSE "Apply"
      [] OTHER                  -> "none"

\* ensure handing an empty payload to Apply whatever the jewel holds.
ensureArgEmpty(jw, kind) == EmptyData

ensureArg(jw, kind) ==
    IF jw.state = stateLoaded THEN jw.data ELSE EmptyData

\* ensure storing the result before it looks at the error.
ensureAdvanceOnError(jw, kind, res) ==
    LET op == ensureOp(jw, kind) IN
    IF op = "none"
        THEN [jewel |-> jw, err |-> Nil, op |-> op]
        ELSE [jewel |-> [state |-> stateReady, data |-> res.data],
              err |-> res.err, op |-> op]

\* jewel.ensure, given what the backend operation answers (when one is invoked)
ensure(jw, kind, res) ==
    LET op == ensureOp(jw, kind) IN
    IF op = "none"
        THEN [jewel |-> jw, err |-> Nil, op |-> op]
        ELSE IF res.err # Nil
            THEN [jewel |-> jw, err |-> res.err, op |-> op]
            ELSE [jewel |-> [state |-> stateReady, data |-> res.data],
                  err |-> Nil, op |-> op]

\* jewel.templateValues
templateValues(jw, kind, res) ==
    LET e == ensure(jw, kind, res) IN
    [jewel |-> e.jewel, op |-> e.op,
     vals |-> [k \in DOMAIN Keys |-> dataValue(Lookup(e.jewel.data, Keys[k]))]]

\* Attr running ensure before it looks the field name up.
jewelAttrEnsureFirst(j, jw, kind, name, res) ==
    LET e == ensure(jw, kind, res) IN
    IF name = "name"
        THEN [jewel |-> e.jewel, err |-> Nil, val |-> String(JewelName(j)), op |-> e.op]
    ELSE IF name \notin DOMAIN Keys
        THEN [jewel |-> e.jewel, err |-> NoSuchAttrError(kind, name), val |-> None,
              op |-> e.op]
    ELSE IF e.err # Nil
        THEN [jewel |-> e.jewel, err |-> e.err, val |-> None, op |-> e.op]
        ELSE [jewel |-> e.jewel, err |-> Nil, op |-> e.op,
              val |-> String(dataValue(Lookup(e.jewel.data, Keys[name])))]

\* jewel.Attr
jewelAttr(j, jw, kind, name, res) ==
    IF name = "name"
        THEN [jewel |-> jw, err |-> Nil, val |-> String(JewelName(j)), op |-> "none"]
    ELSE IF name \notin DOMAIN Keys
        THEN [jewel |-> jw, err |-> NoSuchAttrError(kind, name), val |-> None,
              op |-> "none"]
    ELSE LET e == ensure(jw, kind, res) IN
         IF e.err # Nil
            THEN [jewel |-> e.jewel, err |-> e.err, val |-> None, op |-> e.op]
            ELSE [jewel |-> e.jewel, err |-> Nil, op |-> e.op,
                  val |-> String(dataValue(Lookup(e.jewel.data, Keys[name])))]

\* delete calling Delete on a backend without asking for the capability.
jewelDeleteAlways(kind, res) == [err |-> res, op |-> "Delete"]

\* jewel.delete, given what complex.Delete() answers
jewelDelete(kind, res) ==
    IF kind = "complex" THEN [err |-> res, op |-> "Delete"]
                        ELSE [err |-> Nil, op |-> "none"]

\* ------------------------------------------------------------------- chart
\* eachSubChart / eachVault: the values of c of that type the loop has not yet
\* visited (Go iterates a map in no defined order).
eachSubChart(c, seen) ==
    {v.id : v \in {x \in values[c] : x.t = "chart"}} \ seen

eachVault(c, seen) ==
    {v.id : v \in {x \in values[c] : x.t = "vault"}} \ seen

\* K8sOptions: Namespaced, and an option the core only passes on.
K8sOptions == [Namespaced : BOOLEAN, Timeout : {0, 30}]

\* &K8sOptions{}
ZeroOptions == [Namespaced |-> FALSE, Timeout |-> 0]

\* A call of the internal apply or delete hook of chart c with client k.
\*   seenC, seenV: what eachSubChart / eachVault have visited
\*   sent: the chart's manifests were submitted and the client returned
\*   pc: "run", or "render" while the client consumes the manifest stream
\*   local: the call is one of __apply / __delete, which goes to applyLocal /
\*          deleteLocal at once
\*   opts: the K8sOptions applyLocal / deleteLocal is called with
Frame(fn, c, k) ==
    [fn |-> fn, c |-> c, k |-> k, seenC |-> {}, seenV |-> {}, sent |-> FALSE,
     pc |-> "run", local |-> FALSE, opts |-> ZeroOptions]

LocalFrame(fn, c, k, opts) == [Frame(fn, c, k) EXCEPT !.local = TRUE, !.opts = opts]

\* The sub-charts a call has still to visit: none for __apply / __delete.
subCharts(f) == IF f.local THEN {} ELSE eachSubChart(f.c, f.seenC)

\* applyLocal / deleteLocal handing the options on as they came.
localOptionsKept(opts) == opts

\* k8sOptions.Namespaced = false in applyLocal and deleteLocal
localOptions(opts) == [opts EXCEPT !.Namespaced = FALSE]

\* applyLocal before the sub-charts.
applyNextLocalFirst(f) ==
    IF eachVault(f.c, f.seenV) # {} THEN "vault"
    ELSE IF ~f.sent THEN "submit"
    ELSE IF subCharts(f) # {} THEN "sub"
    ELSE "return"

\* applyLocal submitting the manifests before it reads the jewels.
applyNextSubmitFirst(f) ==
    IF subCharts(f) # {} THEN "sub"
    ELSE IF ~f.sent THEN "submit"
    ELSE IF eachVault(f.c, f.seenV) # {} THEN "vault"
    ELSE "return"

\* chartImpl.apply followed by applyLocal: what the call does next.
applyNext(f) ==
    IF subCharts(f) # {} THEN "sub"
    ELSE IF eachVault(f.c, f.seenV) # {} THEN "vault"
    ELSE IF ~f.sent THEN "submit"
    ELSE "return"

\* deleteLocal releasing the jewels before it submits the removal.
deleteNextReleaseFirst(f) ==
    IF subCharts(f) # {} THEN "sub"
    ELSE IF eachVault(f.c, f.seenV) # {} THEN "vault"
    ELSE IF ~f.sent THEN "submit"
    ELSE "return"

\* chartImpl.delete followed by deleteLocal: what the call does next.
deleteNext(f) ==
    IF subCharts(f) # {} THEN "sub"
    ELSE IF ~f.sent THEN "submit"
    ELSE IF eachVault(f.c, f.seenV) # {} THEN "vault"
    ELSE "return"

NextStep(f) == IF f.fn = "apply" THEN applyNext(f) ELSE deleteNext(f)

\* The client a sub-chart's hook is called with: starlark.Tuple{k}.
hookClient(f) == f.k

\* The record of a cascade: how often each call was made, and what failed.
\*   hook[c]     calls of chart c's apply/delete hook
\*   read[j]     v.read(k) on jewel j
\*   attr[j]     a template read a field of jewel j
\*   backend[j]  backend operations (Apply, Template) ensure invoked on jewel j
\*   sent[c]     k.Apply / k.Delete called with chart c's manifests
\*   ret[c]      ... and returned nil
\*   release[j]  v.delete() on jewel j
\*   cleanup[j]  complex.Delete() of jewel j's backend
\*   by[j]       the charts whose deleteLocal released jewel j
\*   given       the K8sOptions the top-level call handed to applyLocal / deleteLocal
\*   opts        the K8sOptions k.Apply / k.Delete were called with
\*   progress    k.Progress(100)
\*   ks          the clients the calls above were made with or on
\*   fns         the hooks ("apply", "delete") that made them
\*   errs        the errors the calls above returned, in order
NoRecord ==
    [hook |-> [c \in Charts |-> 0], read |-> [j \in Jewels |-> 0],
     attr |-> [j \in Jewels |-> FALSE], backend |-> [j \in Jewels |-> 0],
     sent |-> [c \in Charts |-> 0], ret |-> [c \in Charts |-> 0],
     release |-> [j \in Jewels |-> 0], cleanup |-> [j \in Jewels |-> 0],
     by |-> [j \in Jewels |-> {}], given |-> ZeroOptions, opts |-> {},
     progress |-> 0, ks |-> {}, fns |-> {}, errs |-> <<>>]

Noted(d, err) == IF err # Nil THEN [d EXCEPT !.errs = Append(@, err)] ELSE d

Last(s) == s[Len(s)]
Front(s) == SubSeq(s, 1, Len(s) - 1)
SetTop(s, f) == [s EXCEPT ![Len(s)] = f]

\* Calls that have nothing left to do return nil to their callers.
RECURSIVE Unwind(_)
Unwind(stk) ==
    IF stk = <<>> THEN <<>>
    ELSE IF NextStep(Last(stk)) = "return" THEN Unwind(Front(stk))
    ELSE stk

\* Chart.Apply / Chart.Delete reporting progress whatever the hook returned.
SettleProgressAlways(stk, tp, d, err) ==
    IF err # Nil
        THEN [stack |-> <<>>,
              did |-> [d EXCEPT !.progress = @ + 1, !.ks = @ \cup {tp.k}],
              top |-> [tp EXCEPT !.status = "done", !.err = err]]
        ELSE LET s == Unwind(stk) IN
             IF s = <<>>
                THEN [stack |-> s,
                      did |-> [d EXCEPT !.progress = @ + 1, !.ks = @ \cup {tp.k}],
                      top |-> [tp EXCEPT !.status = "done", !.err = Nil]]
                ELSE [stack |-> s, did |-> d, top |-> tp]

\* eachSubChart / eachVault going on to the next value after a block failed:
\* only the top-level hook's own error is returned.
SettleSwallowError(stk, tp, d, err) ==
    LET s == IF err # Nil THEN Unwind(Front(stk)) ELSE Unwind(stk) IN
    IF s = <<>>
        THEN [stack |-> s,
              did |-> IF err = Nil
                        THEN [d EXCEPT !.progress = @ + 1, !.ks = @ \cup {tp.k}]
                        ELSE d,
              top |-> [tp EXCEPT !.status = "done", !.err = err]]
        ELSE [stack |-> s, did |-> d, top |-> tp]

\* The cascade after a step that left the stack stk and returned err.  An
\* error is returned by every caller up to Chart.Apply / Chart.Delete, which
\* returns it too; when the top-level hook returns nil, Progress(100) is called
\* (not when a script called __apply / __delete itself).
Settle(stk, tp, d, err) ==
    IF err # Nil
        THEN [stack |-> <<>>, did |-> d,
              top |-> [tp EXCEPT !.status = "done", !.err = err]]
        ELSE LET s == Unwind(stk) IN
             IF s = <<>>
                THEN [stack |-> s,
                      did |-> IF tp.op \in {"Apply", "Delete"}
                                THEN [d EXCEPT !.progress = @ + 1, !.ks = @ \cup {tp.k}]
                                ELSE d,
                      top |-> [tp EXCEPT !.status = "done", !.err = Nil]]
                ELSE [stack |-> s, did |-> d, top |-> tp]

\* No field of the jewel has been read yet.
NoneGot == [n \in DOMAIN Keys |-> None]

\* The record of a script's operation op on jewel j:
\*   name  the field asked for (Attr)
\*   pre   the jewel before the operation
\*   ans   what the collaborator (vault, backend) answers when it is called
\*   bop   the backend operation invoked, barg the payload handed to it
\*   err, val, vals: what the operation returns
Out(op, j, name, pre, ans, bop, barg, err, val, vals) ==
    [op |-> op, j |-> j, name |-> name, pre |-> pre, ans |-> ans, bop |-> bop,
     barg |-> barg, err |-> err, val |-> val, vals |-> vals]

NoVals == [k \in DOMAIN Keys |-> ""]

NoOut ==
    Out("none", 0, "", NewJewel, [data |-> EmptyData, err |-> Nil], "none",
        EmptyData, Nil, None, NoVals)

\* The history of a jewel over the apply cycles of a script:
\*   first     what the first read found: "found", "missing" or "io" (a failure)
\*   gens      backend calls ensure made while the jewel held nothing (stateInit)
\*   empties   backend calls that were Template or were handed the empty payload
\*   early     whether ensure called the backend before the first read
\*   failed    whether a backend call returned an error
NoLife == [first |-> "none", gens |-> 0, empties |-> 0, early |-> FALSE, failed |-> FALSE]

\* What the first read found.
Found(res) ==
    IF res.err = Nil THEN "found" ELSE IF IsNotExist(res.err) THEN "missing" ELSE "io"

\* ensure's call op generates from nothing: the stateInit case of the switch.
Generates(jw, op) == op = "Template" \/ (op = "Apply" /\ jw.state = stateInit)

\* ensure's call op is Template or is handed the empty payload.
FromEmpty(jw, kind, op) == op = "Template" \/ (op = "Apply" /\ ensureArg(jw, kind) = EmptyData)

\* The history after ensure called op on jewel jw and the backend answered res.
Lived(l, jw, kind, op, res) ==
    [l EXCEPT !.gens = IF Generates(jw, op) THEN @ + 1 ELSE @,
              !.empties = IF FromEmpty(jw, kind, op) THEN @ + 1 ELSE @,
              !.early = @ \/ (op # "none" /\ l.first = "none"),
              !.failed = @ \/ (op # "none" /\ res.err # Nil)]

\* ------------------------------------------------------------ chart object
\* A starlark value held in c.values or returned by chartImpl.Attr: kind is
\* "int", "string", "dict" (a host mapping), "wrapped" (the sandbox's
\* dictionary wrapper of a host mapping), "class", "builtin" or "nil"; s is
\* the text of a scalar, d the entries of a mapping.
Value(kind, s, d) == [kind |-> kind, s |-> s, d |-> d]

NoValues == [x \in {} |-> Value("nil", "", <<>>)]

MakeInt(s) == Value("int", s, NoValues)
Str(s) == Value("string", s, NoValues)
Dict(d) == Value("dict", "", d)
Wrapped(d) == Value("wrapped", "", d)
Class(name) == Value("class", name, NoValues)
Builtin(name) == Value("builtin", name, NoValues)
NilValue == Value("nil", "", NoValues)

\* wrapDict exposes a host mapping as the sandbox's dictionary wrapper;
\* unwrapDict turns the wrapper back into the host mapping.
wrapDict(v) == IF v.kind = "dict" THEN [v EXCEPT !.kind = "wrapped"] ELSE v
unwrapDict(v) == IF v.kind = "wrapped" THEN [v EXCEPT !.kind = "dict"] ELSE v

\* m[k] = v
Put(m, k, v) == [n \in DOMAIN m \cup {k} |-> IF n = k THEN v ELSE m[n]]

\* The hooks a chart registers in c.methods.
Methods == {"apply", "delete", "__apply", "__delete"}

NewChart(namespace, suffix, vals) ==
    [clazz |-> "app", namespace |-> namespace, suffix |-> suffix,
     methods |-> Methods, values |-> vals]

GetName(ch) == IF ch.suffix = "" THEN ch.clazz ELSE ch.clazz \o "-" \o ch.suffix

\* Attr looking into c.values before the reserved names.
chartAttrValuesFirst(ch, name) ==
    IF name \in DOMAIN ch.values
        THEN [val |-> wrapDict(ch.values[name]), err |-> Nil]
    ELSE IF name = "namespace" THEN [val |-> Str(ch.namespace), err |-> Nil]
    ELSE IF name = "name" THEN [val |-> Str(GetName(ch)), err |-> Nil]
    ELSE IF name = "__class__" THEN [val |-> Class(ch.clazz), err |-> Nil]
    ELSE IF name \notin ch.methods
        THEN [val |-> NilValue, err |-> NoSuchAttrError("chart", name)]
        ELSE [val |-> Builtin(name), err |-> Nil]

\* chartImpl.Attr
chartAttr(ch, name) ==
    IF name = "namespace" THEN [val |-> Str(ch.namespace), err |-> Nil]
    ELSE IF name = "name" THEN [val |-> Str(GetName(ch)), err |-> Nil]
    ELSE IF name = "__class__" THEN [val |-> Class(ch.clazz), err |-> Nil]
    ELSE IF name \notin DOMAIN ch.values
        THEN IF name \notin ch.methods
                THEN [val |-> NilValue, err |-> NoSuchAttrError("chart", name)]
                ELSE [val |-> Builtin(name), err |-> Nil]
        ELSE [val |-> wrapDict(ch.values[name]), err |-> Nil]

\* chartImpl.SetField
SetField(ch, name, val) ==
    [chart |-> [ch EXCEPT !.values = Put(@, name, unwrapDict(val))], err |-> Nil]

\* A uint32 is held as its two 16-bit halves, so that no intermediate number
\* leaves the range of the model checker's integers.
W(hi, lo) == [hi |-> hi, lo |-> lo]

\* The uint32 of a number below 2^31
Word(n) == W(n \div Half, n % Half)

\* a ^ b on numbers
RECURSIVE XorNat(_, _)
XorNat(a, b) ==
    IF a = 0 THEN b
    ELSE IF b = 0 THEN a
    ELSE ((a + b) % 2) + (2 * XorNat(a \div 2, b \div 2))

\* a ^ b, a + b and a * b on uint32 (the last two wrap around)
Xor(a, b) == W(XorNat(a.hi, b.hi), XorNat(a.lo, b.lo))

Add(a, b) == W((a.hi + b.hi + ((a.lo + b.lo) \div Half)) % Half, (a.lo + b.lo) % Half)

\* a * n for a number n below 2^15
Times(a, n) == W((a.hi * n + ((a.lo * n) \div Half)) % Half, (a.lo * n) % Half)

Shift8(a) == Times(a, 256)
Shift16(a) == W(a.lo, 0)

Mul(a, b) ==
    Add(Add(Times(a, b.lo % 256), Shift8(Times(a, b.lo \div 256))),
        Shift16(Add(Times(a, b.hi % 256), Shift8(Times(a, b.hi \div 256)))))

\* starlark.String(k).Hash(): words standing for the sandbox's string hash.
StringHash(k) ==
    CASE k = "namespace" -> W(33052, 40389)
      [] k = "name"      -> W(1292, 24415)
      [] k = "__class__" -> W(58380, 11052)
      [] k = "replicas"  -> W(19350, 1877)
      [] k = "apply"     -> W(0, 40389)
      [] OTHER           -> W(65535, 65535)

\* e.Hash() of a value of c.values: a word for a scalar, an error for a
\* mapping (unhashable).
ValueHash(e) ==
    CASE e.kind \in {"dict", "wrapped"} -> [h |-> Word(0), err |-> Err("unhashable", 0)]
      [] e.s = "1"                        -> [h |-> W(192, 37), err |-> Nil]
      [] e.s = "2"                        -> [h |-> W(49153, 74), err |-> Nil]
      [] OTHER                            -> [h |-> Word(1), err |-> Nil]

\* The orders in which a range loop can visit the keys of a map.
Orders(S) ==
    {o \in [1..Cardinality(S) -> S] : \A i, j \in DOMAIN o : i # j => o[i] # o[j]}

\* The loop of chartImpl.Hash from its i-th iteration on.
RECURSIVE hashLoop(_, _, _, _, _)
hashLoop(vals, order, i, x, m) ==
    IF i > Len(order) THEN [h |-> x, err |-> Nil]
    ELSE LET k == order[i]
             x1 == Xor(x, Mul(Word(KeyFactor), StringHash(k)))
             y == ValueHash(vals[k])
         IN  IF y.err # Nil THEN [h |-> Word(0), err |-> y.err]
             ELSE hashLoop(vals, order, i + 1, Xor(x1, Mul(y.h, m)),
                           Add(m, Word(HashStep)))

\* chartImpl.Hash, the range loop visiting c.values in the given order
Hash(ch, order) == hashLoop(ch.values, order, 1, Word(HashSeed), Word(HashFactor))

\* An override tree handed to mergeValues (map[string]interface{}): a Go map
\* or a Go scalar.
GoMap(d) == Value("gomap", "", d)
GoInt(s) == Value("goint", s, NoValues)

\* toStarlark: the starlark value of a Go value, entry by entry.
RECURSIVE toStarlark(_)
toStarlark(v) ==
    CASE v.kind = "gomap" -> Dict([k \in DOMAIN v.d |-> toStarlark(v.d[k])])
      [] v.kind = "goint" -> MakeInt(v.s)
      [] OTHER            -> v

IsMapping(v) == v.kind \in {"dict", "wrapped", "gomap"}

\* merge: key by key on two mappings (a key of one side only passes through);
\* otherwise the incoming value.
RECURSIVE merge(_, _)
merge(existing, incoming) ==
    IF IsMapping(existing) /\ IsMapping(incoming)
        THEN [existing EXCEPT !.d =
                [k \in DOMAIN existing.d \cup DOMAIN incoming.d |->
                    IF k \notin DOMAIN incoming.d THEN existing.d[k]
                    ELSE IF k \notin DOMAIN existing.d THEN incoming.d[k]
                    ELSE merge(existing.d[k], incoming.d[k])]]
        ELSE incoming

\* c.values[k], nil when the map has no such key
At(m, k) == IF k \in DOMAIN m THEN m[k] ELSE NilValue

\* mergeValues storing the override without merging it.
mergeValuesReplace(ch, o) ==
    [ch EXCEPT !.values =
        [k \in DOMAIN ch.values \cup DOMAIN o.d |->
            IF k \in DOMAIN o.d THEN toStarlark(o.d[k]) ELSE ch.values[k]]]

\* chartImpl.mergeValues
mergeValues(ch, o) ==
    [ch EXCEPT !.values =
        [k \in DOMAIN ch.values \cup DOMAIN o.d |->
            IF k \in DOMAIN o.d
                THEN merge(At(ch.values, k), toStarlark(o.d[k]))
                ELSE ch.values[k]]]

\* The record of a script's operation op on the chart object:
\*   name, arg  the operation's arguments
\*   val, err   what it returned
\*   pre        the chart before the operation
\*   last       last[n]: the value most recently stored under n
\*   n          the operations that changed the chart so far
\*   h          the number Hash returned
\*   pre2, arg2 the chart before the mergeValues call before this one, and the
\*              override tree that call was given
Ret(op, name, arg, val, err, pre, last, n) ==
    [op |-> op, name |-> name, arg |-> arg, val |-> val, err |-> err, pre |-> pre,
     last |-> last, n |-> n, h |-> Word(0), pre2 |-> pre, arg2 |-> NilValue]

NoRet ==
    Ret("none", "", NilValue, NilValue, Nil, NewChart("default", "", NoValues), NoValues, 0)

\* ------------------------------------------------------------------ vault
\* The byte-maps a vault is given, the secret names and the namespaces.
ByteMaps == DataMaps \cup {[x \in {"pwd", "usr"} |-> IF x = "pwd" THEN "" ELSE "admin"]}
SecretNames == {"s1", "s2"}
Namespaces == {"default", "prod"}

\* json.Marshal of a map[string][]byte: an object of base64 strings;
\* json.Unmarshal into a map[string][]byte decodes them.
Marshal(data) == [k \in DOMAIN data |-> [b64 |-> data[k]]]
Unmarshal(json) == [k \in DOMAIN json |-> json[k].b64]

\* The Object a vault writes; NoObject where the cluster holds none.
Object(name, namespace, json) ==
    [kind |-> "Secret", name |-> name, namespace |-> namespace, type |-> "Opaque",
     data |-> json]

NoObject == [kind |-> "", name |-> "", namespace |-> "", type |-> "", data |-> Marshal(EmptyData)]

\* v.objectWriter(obj): an upsert of obj in its namespace; when it fails the
\* object may or may not have been stored.
objectWriter(cl, obj, res) ==
    IF res = Nil
        THEN {[cluster |-> [cl EXCEPT ![<<obj.namespace, obj.name>>] = obj], err |-> Nil]}
        ELSE {[cluster |-> cl, err |-> res],
              [cluster |-> [cl EXCEPT ![<<obj.namespace, obj.name>>] = obj], err |-> res]}

\* v.k8s.Get(kind, name, options): a typed get in the reader's namespace.
Get(v, cl, name, res) ==
    IF res # Nil THEN [obj |-> NoObject, err |-> res]
    ELSE IF cl[<<v.k8s, name>>] = NoObject
        THEN [obj |-> NoObject, err |-> Err("notfound", 0)]
        ELSE [obj |-> cl[<<v.k8s, name>>], err |-> Nil]

\* Write leaving the namespace of the object to the default.
WriteDefaultNamespace(v, cl, name, data, res) ==
    objectWriter(cl, Object(name, "default", Marshal(data)), res)

\* vaultK8s.Write, given what the objectWriter answers
Write(v, cl, name, data, res) ==
    objectWriter(cl, Object(name, v.namespace, Marshal(data)), res)

\* vaultK8s.Read, given what the reader's call answers
Read(v, cl, name, res) ==
    LET g == Get(v, cl, name, res) IN
    IF g.err # Nil THEN [data |-> EmptyData, err |-> g.err]
                   ELSE [data |-> Unmarshal(g.obj.data), err |-> Nil]

\* What was written under a name: never anything, a byte-map, or (after a
\* Write that failed) nobody knows.
Never == [known |-> TRUE, some |-> FALSE, data |-> EmptyData]
Known(data) == [known |-> TRUE, some |-> TRUE, data |-> data]
Unknown == [known |-> FALSE, some |-> FALSE, data |-> EmptyData]

\* The record of the vault's last operation op: its name and data arguments,
\* the error and byte-map it returned, and what was written under each name.
Rw(op, name, arg, data, err, written) ==
    [op |-> op, name |-> name, arg |-> arg, data |-> data, err |-> err,
     written |-> written]

\* A vault of the given namespace on a cluster without secrets.
NoStore(namespace) ==
    /\ vault = [namespace |-> namespace, k8s |-> namespace]
    /\ cluster = [key \in Namespaces \X SecretNames |-> NoObject]
    /\ rw = Rw("none", "", EmptyData, EmptyData, Nil, [n \in SecretNames |-> Never])

\* The chart trees: a chain 1 - 2 - 3 .. or a fan 1 - {2, 3, ..}.
Trees ==
    { [c \in Charts |-> c - 1],
      [c \in Charts |-> IF c = 1 THEN 0 ELSE 1] }

\* The jewels belong to the root or to its first sub-chart.  Jewels are
\* numbered by owner, and among one owner's jewels the simple backends first.
Owners ==
    {o \in [Jewels -> {1, 2} \cap Charts] : \A i, j \in Jewels : i < j => o[i] <= o[j]}

Backends(o) ==
    {b \in [Jewels -> {"simple", "complex"}] :
        \A i, j \in Jewels : i < j /\ o[i] = o[j] /\ b[i] = "complex" => b[j] = "complex"}

\* No cascade has run and no jewel has been used.
Fresh ==
    /\ jewel = [j \in Jewels |-> NewJewel]
    /\ stack = <<>>
    /\ top = [op |-> "none", c |-> 1, k |-> "k1", status |-> "idle", err |-> Nil]
    /\ did = NoRecord
    /\ calls = 0
    /\ okCalls = 0
    /\ got = NoneGot
    /\ out = NoOut
    /\ life = NoLife

Init ==
    /\ \E p \in Trees, o \in Owners :
          /\ values = [c \in Charts |->
                         {ChartItem(s) : s \in {x \in Charts : p[x] = c}}
                             \cup {VaultItem(j) : j \in {x \in Jewels : o[x] = c}}]
          /\ backend \in Backends(o)
    /\ Fresh
    /\ chart = NewChart("default", "", NoValues)
    /\ ret = NoRet
    /\ NoStore("default")

\* The same with one tree: a chain of charts, the jewels held by the root.
Alone ==
    /\ values = [c \in Charts |->
                   {ChartItem(s) : s \in {x \in Charts : x = c + 1}}
                       \cup {VaultItem(j) : j \in {x \in Jewels : c = 1}}]
    /\ backend = [j \in Jewels |-> "simple"]
    /\ Fresh

Running == stack # <<>>

Commit(r) ==
    /\ stack' = r.stack
    /\ top' = r.top
    /\ did' = r.did

\* Chart.Apply(k) / Chart.Delete(k) on the root chart: call the chart's hook.
Call(op, fn, k) ==
    /\ ~Running
    /\ top' = [op |-> op, c |-> 1, k |-> k, status |-> "running", err |-> Nil]
    /\ stack' = <<Frame(fn, 1, k)>>
    /\ did' = [NoRecord EXCEPT !.hook[1] = 1, !.ks = {k}, !.fns = {fn}]
    /\ UNCHANGED <<values, backend, jewel, calls, okCalls, got, out, life>>
    /\ UNCHANGED <<object, store>>

ChartApply == \E k \in Clients : Call("Apply", "apply", k)

ChartDelete == \E k \in Clients : Call("Delete", "delete", k)

\* eachSubChart's block: call the next sub-chart's hook.
CallSubChart ==
    /\ Running
    /\ LET f == Last(stack) IN
       /\ f.pc = "run"
       /\ NextStep(f) = "sub"
       /\ \E s \in eachSubChart(f.c, f.seenC) :
            /\ stack' = Append(SetTop(stack, [f EXCEPT !.seenC = @ \cup {s}]),
                               Frame(f.fn, s, hookClient(f)))
            /\ did' = [did EXCEPT !.hook[s] = @ + 1, !.ks = @ \cup {hookClient(f)},
                                  !.fns = @ \cup {f.fn}]
    /\ UNCHANGED <<values, backend, jewel, top, calls, okCalls, got, out, life>>
    /\ UNCHANGED <<object, store>>

\* applyLocal's eachVault block: v.read(k)
VaultRead ==
    /\ Running
    /\ LET f == Last(stack) IN
       /\ f.pc = "run"
       /\ f.fn = "apply"
       /\ NextStep(f) = "vault"
       /\ \E j \in eachVault(f.c, f.seenV) : \E res \in ReadResults(j) :
            LET r == read(jewel[j], res) IN
            /\ jewel' = [jewel EXCEPT ![j] = r.jewel]
            /\ Commit(Settle(SetTop(stack, [f EXCEPT !.seenV = @ \cup {j}]), top,
                             Noted([did EXCEPT !.read[j] = @ + 1, !.ks = @ \cup {f.k},
                                               !.fns = @ \cup {f.fn}],
                                   r.err),
                             r.err))
    /\ UNCHANGED <<values, backend, calls, okCalls, got, out, life>>
    /\ UNCHANGED <<object, store>>

\* deleteLocal's eachVault block: v.delete()
VaultDelete ==
    /\ Running
    /\ LET f == Last(stack) IN
       /\ f.pc = "run"
       /\ f.fn = "delete"
       /\ NextStep(f) = "vault"
       /\ \E j \in eachVault(f.c, f.seenV) : \E res \in CallResults("cleanup", j) :
            LET r == jewelDelete(backend[j], res) IN
            Commit(Settle(SetTop(stack, [f EXCEPT !.seenV = @ \cup {j}]), top,
                          Noted([did EXCEPT !.release[j] = @ + 1, !.fns = @ \cup {f.fn},
                                            !.by[j] = @ \cup {f.c},
                                            !.cleanup[j] = IF r.op = "none" THEN @ ELSE @ + 1],
                                r.err),
                          r.err))
    /\ UNCHANGED <<values, backend, jewel, calls, okCalls, got, out, life>>
    /\ UNCHANGED <<object, store>>

\* k.Apply(decode(c.template(..)), k8sOptions) / k.Delete(..) is called.
Submit ==
    /\ Running
    /\ LET f == Last(stack) IN
       /\ f.pc = "run"
       /\ NextStep(f) = "submit"
       /\ stack' = SetTop(stack, [f EXCEPT !.pc = "render"])
       /\ did' = [did EXCEPT !.sent[f.c] = @ + 1, !.ks = @ \cup {f.k},
                           !.fns = @ \cup {f.fn},
                           !.opts = @ \cup {localOptions(f.opts)}]
    /\ UNCHANGED <<values, backend, jewel, top, calls, okCalls, got, out, life>>
    /\ UNCHANGED <<object, store>>

\* The client consumes the manifest stream: a template reads a field of one of
\* the chart's jewels.  A failing access ends the stream with that error, which
\* the client returns.
Render ==
    /\ Running
    /\ LET f == Last(stack) IN
       /\ f.pc = "render"
       /\ \E j \in eachVault(f.c, {}), name \in DOMAIN Keys : \E res \in BackendResults(j) :
            LET a == jewelAttr(j, jewel[j], backend[j], name, res)
                d == [did EXCEPT !.attr[j] = TRUE,
                                 !.backend[j] = IF a.op = "none" THEN @ ELSE @ + 1]
            IN
            /\ jewel' = [jewel EXCEPT ![j] = a.jewel]
            /\ Commit(Settle(stack, top, Noted(d, a.err), a.err))
    /\ UNCHANGED <<values, backend, calls, okCalls, got, out, life>>
    /\ UNCHANGED <<object, store>>

\* k.Apply / k.Delete returns.
SubmitReturn ==
    /\ Running
    /\ LET f == Last(stack) IN
       /\ f.pc = "render"
       /\ \E res \in CallResults(IF f.fn = "apply" THEN "Apply" ELSE "Delete", f.c) :
            Commit(Settle(SetTop(stack, [f EXCEPT !.pc = "run", !.sent = TRUE]), top,
                          Noted([did EXCEPT !.ret[f.c] = IF res = Nil THEN @ + 1 ELSE @],
                                res),
                          res))
    /\ UNCHANGED <<values, backend, jewel, calls, okCalls, got, out, life>>
    /\ UNCHANGED <<object, store>>

Next ==
    \/ ChartApply
    \/ ChartDelete
    \/ CallSubChart
    \/ VaultRead
    \/ VaultDelete
    \/ Submit
    \/ Render
    \/ SubmitReturn

Spec == Init /\ [][Next]_vars

\* -------------------------------------- a script calling __apply / __delete
\* c.__apply(k, ..) / c.__delete(k, ..) on the root chart with the K8sOptions
\* unpacked from the keyword arguments: applyLocal / deleteLocal at once.
CallLocal(op, fn, k, opts) ==
    /\ ~Running
    /\ top' = [op |-> op, c |-> 1, k |-> k, status |-> "running", err |-> Nil]
    /\ stack' = <<LocalFrame(fn, 1, k, opts)>>
    /\ did' = [NoRecord EXCEPT !.hook[1] = 1, !.ks = {k}, !.fns = {fn}, !.given = opts]
    /\ UNCHANGED <<values, backend, jewel, calls, okCalls, got, out, life>>
    /\ UNCHANGED <<object, store>>

HookApplyLocal == \E k \in Clients, opts \in K8sOptions : CallLocal("__apply", "apply", k, opts)

HookDeleteLocal == \E k \in Clients, opts \in K8sOptions : CallLocal("__delete", "delete", k, opts)

LocalInit ==
    /\ Alone
    /\ chart = NewChart("default", "", NoValues)
    /\ ret = NoRet
    /\ NoStore("default")

LocalNext ==
    \/ HookApplyLocal
    \/ HookDeleteLocal
    \/ ChartApply
    \/ ChartDelete
    \/ CallSubChart
    \/ VaultRead
    \/ VaultDelete
    \/ Submit
    \/ Render
    \/ SubmitReturn

LocalSpec == LocalInit /\ [][LocalNext]_vars

\* ------------------------------------------------- a script using one jewel
\* The operations a chart's script, or a test, performs on a jewel directly.
ScriptJewels == {1}

Count(n, op) == IF op = "none" THEN n ELSE n + 1

CountOk(n, op, err) == IF op = "none" \/ err # Nil THEN n ELSE n + 1

ScriptRead ==
    /\ ~Running
    /\ \E j \in ScriptJewels : \E res \in ReadResults(j) :
          LET r == read(jewel[j], res) IN
          /\ jewel' = [jewel EXCEPT ![j] = r.jewel]
          /\ out' = Out("read", j, "", jewel[j], res, "none", EmptyData, r.err, None, NoVals)
          /\ life' = IF life.first = "none" THEN [life EXCEPT !.first = Found(res)] ELSE life
    /\ calls' = 0
    /\ okCalls' = 0
    /\ got' = NoneGot
    /\ UNCHANGED <<values, backend, stack, top, did>>
    /\ UNCHANGED <<object, store>>

ScriptEnsure ==
    /\ ~Running
    /\ \E j \in ScriptJewels : \E res \in BackendResults(j) :
          LET e == ensure(jewel[j], backend[j], res) IN
          /\ Count(calls, e.op) <= MaxCalls
          /\ life' = Lived(life, jewel[j], backend[j], e.op, res)
          /\ life'.empties <= MaxGens
          /\ jewel' = [jewel EXCEPT ![j] = e.jewel]
          /\ calls' = Count(calls, e.op)
          /\ okCalls' = CountOk(okCalls, e.op, e.err)
          /\ out' = Out("ensure", j, "", jewel[j], res, e.op,
                        ensureArg(jewel[j], backend[j]), e.err, None, NoVals)
    /\ UNCHANGED <<values, backend, stack, top, did, got>>
    /\ UNCHANGED <<object, store>>

ScriptAttr ==
    /\ ~Running
    /\ \E j \in ScriptJewels, name \in FieldNames : \E res \in BackendResults(j) :
          LET a == jewelAttr(j, jewel[j], backend[j], name, res) IN
          /\ Count(calls, a.op) <= MaxCalls
          /\ life' = Lived(life, jewel[j], backend[j], a.op, res)
          /\ life'.empties <= MaxGens
          /\ jewel' = [jewel EXCEPT ![j] = a.jewel]
          /\ calls' = Count(calls, a.op)
          /\ okCalls' = CountOk(okCalls, a.op, a.err)
          /\ got' = IF name \in DOMAIN Keys /\ a.err = Nil /\ got[name] = None
                        THEN [got EXCEPT ![name] = a.val]
                        ELSE got
          /\ out' = Out("Attr", j, name, jewel[j], res, a.op,
                        ensureArg(jewel[j], backend[j]), a.err, a.val, NoVals)
    /\ UNCHANGED <<values, backend, stack, top, did>>
    /\ UNCHANGED <<object, store>>

ScriptTemplateValues ==
    /\ ~Running
    /\ \E j \in ScriptJewels : \E res \in BackendResults(j) :
          LET t == templateValues(jewel[j], backend[j], res) IN
          /\ Count(calls, t.op) <= MaxCalls
          /\ life' = Lived(life, jewel[j], backend[j], t.op, res)
          /\ life'.empties <= MaxGens
          /\ jewel' = [jewel EXCEPT ![j] = t.jewel]
          /\ calls' = Count(calls, t.op)
          /\ okCalls' = CountOk(okCalls, t.op, res.err)
          /\ out' = Out("templateValues", j, "", jewel[j], res, t.op,
                        ensureArg(jewel[j], backend[j]), Nil, None, t.vals)
    /\ UNCHANGED <<values, backend, stack, top, did, got>>
    /\ UNCHANGED <<object, store>>

ScriptDelete ==
    /\ ~Running
    /\ \E j \in ScriptJewels : \E res \in CallResults("cleanup", j) :
          LET r == jewelDelete(backend[j], res) IN
          out' = Out("delete", j, "", jewel[j], [data |-> EmptyData, err |-> res],
                     r.op, EmptyData, r.err, None, NoVals)
    /\ UNCHANGED <<values, backend, jewel, stack, top, did, calls, okCalls, got, life>>
    /\ UNCHANGED <<object, store>>

JewelNext ==
    \/ ScriptRead
    \/ ScriptEnsure
    \/ ScriptAttr
    \/ ScriptTemplateValues
    \/ ScriptDelete

\* The script's jewel is jewel 1 of the root chart; the tree around it is one
\* of the trees of Init that takes no part in the script.
JewelInit ==
    /\ Init
    /\ \A c \in Charts : c > 1 => ChartItem(c) \in values[c - 1]
    /\ \A j \in Jewels : VaultItem(j) \in values[1] /\ backend[j] = backend[1]

JewelSpec == JewelInit /\ [][JewelNext]_vars

\* ------------------------------------------ a script using the chart object
\* The attribute names a script uses, and the values it stores.
AttrNames == {"namespace", "name", "__class__", "replicas", "apply", "port"}

Ports == [port |-> MakeInt("80")]

SetVals == {MakeInt("1"), Dict(Ports), Wrapped(Ports)}

\* newChart: the namespace and suffix options, the values of values.yaml.
AttrInit ==
    /\ Alone
    /\ \E id \in {<<"default", "">>, <<"prod", "blue">>} :
       \E vals \in {NoValues, [replicas |-> MakeInt("2")]} :
          /\ chart = NewChart(id[1], id[2], vals)
          /\ ret = [NoRet EXCEPT !.pre = chart, !.last = vals]
    /\ NoStore("default")

ChartSetField ==
    /\ ret.n < MaxSets
    /\ \E name \in AttrNames, val \in SetVals :
          LET r == SetField(chart, name, val) IN
          /\ chart' = r.chart
          /\ ret' = Ret("SetField", name, val, NilValue, r.err, chart,
                        Put(ret.last, name, val), ret.n + 1)
    /\ UNCHANGED <<cascade, store>>

ChartAttr ==
    /\ \E name \in AttrNames :
          LET r == chartAttr(chart, name) IN
          ret' = Ret("Attr", name, NilValue, r.val, r.err, chart, ret.last, ret.n)
    /\ UNCHANGED <<cascade, chart, store>>

ChartHash ==
    /\ \E order \in Orders(DOMAIN chart.values) :
          LET r == Hash(chart, order) IN
          ret' = [Ret("Hash", "", NilValue, NilValue, r.err, chart, ret.last, ret.n)
                     EXCEPT !.h = r.h]
    /\ UNCHANGED <<cascade, chart, store>>

AttrNext ==
    \/ ChartSetField
    \/ ChartAttr

AttrSpec == AttrInit /\ [][AttrNext]_vars

HashNext ==
    \/ ChartSetField
    \/ ChartHash

HashSpec == AttrInit /\ [][HashNext]_vars

\* The values a chart starts with (values.yaml) and the override trees.
Defaults ==
    { NoValues,
      [b |-> Dict([x |-> MakeInt("1")])],
      [a |-> MakeInt("1"), b |-> Dict([x |-> MakeInt("1")])],
      [a |-> Dict([x |-> MakeInt("1")]), b |-> MakeInt("7")] }

Overrides ==
    { GoMap(NoValues),
      GoMap([b |-> GoInt("5")]),
      GoMap([b |-> GoMap([y |-> GoInt("2")])]),
      GoMap([b |-> GoMap([x |-> GoInt("3")])]),
      GoMap([a |-> GoMap([y |-> GoInt("2")])]),
      GoMap([b |-> GoMap([y |-> GoInt("2")]), c |-> GoInt("3")]) }

MergeInit ==
    /\ Alone
    /\ \E vals \in Defaults :
          /\ chart = NewChart("default", "", vals)
          /\ ret = [NoRet EXCEPT !.pre = chart, !.pre2 = chart]
    /\ NoStore("default")

ChartMergeValues ==
    /\ ret.n < MaxSets
    /\ \E o \in Overrides :
          /\ chart' = mergeValues(chart, o)
          /\ ret' = [Ret("mergeValues", "", o, NilValue, Nil, chart, NoValues, ret.n + 1)
                        EXCEPT !.pre2 = ret.pre, !.arg2 = ret.arg]
    /\ UNCHANGED <<cascade, store>>

MergeNext == ChartMergeValues

MergeSpec == MergeInit /\ [][MergeNext]_vars

\* ----------------------------------------------------- a client of the vault
VaultInit ==
    /\ Alone
    /\ chart = NewChart("default", "", NoValues)
    /\ ret = NoRet
    /\ \E namespace \in Namespaces : NoStore(namespace)

VaultK8sWrite ==
    /\ \E name \in SecretNames, data \in ByteMaps, res \in CallResults("io", 0) :
       \E w \in Write(vault, cluster, name, data, res) :
          /\ cluster' = w.cluster
          /\ rw' = Rw("Write", name, data, EmptyData, w.err,
                      [rw.written EXCEPT ![name] = IF w.err = Nil THEN Known(data)
                                                                ELSE Unknown])
    /\ UNCHANGED <<cascade, object, vault>>

VaultK8sRead ==
    /\ \E name \in SecretNames, res \in CallResults("io", 0) :
          LET r == Read(vault, cluster, name, res) IN
          rw' = Rw("Read", name, EmptyData, r.data, r.err, rw.written)
    /\ UNCHANGED <<cascade, object, vault, cluster>>

VaultNext ==
    \/ VaultK8sWrite
    \/ VaultK8sRead

VaultSpec == VaultInit /\ [][VaultNext]_vars

\* ------------------------------------------------------------ properties
Subs(c) == eachSubChart(c, {})
Vaults(c) == eachVault(c, {})

\* C1: in an apply cascade, whenever a chart's own jewel has been read or its
\* own manifests have been submitted to k.Apply, the apply hook of every one
\* of its sub-charts has been invoked before, and has returned after that
\* sub-chart's own submission succeeded; every call was made with the client
\* the top-level call was given.
C1_SubChartsBeforeLocalApply ==
    top.op = "Apply" =>
        /\ did.ks \subseteq {top.k}
        /\ \A c \in Charts :
              (did.sent[c] > 0 \/ \E j \in Vaults(c) : did.read[j] > 0)
                  => \A s \in Subs(c) : did.hook[s] = 1 /\ did.ret[s] = 1

C1_Witness ==
    /\ top.op = "Apply"
    /\ Cardinality(Subs(1)) >= 2
    /\ \E j \in Vaults(1) : did.read[j] = 1
    /\ did.sent[1] = 1

\* C2: in a delete cascade, whenever the delete hook of a sub-chart has been
\* invoked, the removal of the parent's own manifests has been submitted and
\* has returned, and every jewel of the parent has been released.
C2_LocalDeleteBeforeSubCharts ==
    top.op = "Delete" =>
        \A c \in Charts : \A s \in Subs(c) :
            did.hook[s] > 0 =>
                /\ did.ret[c] > 0
                /\ \A j \in Vaults(c) : did.release[j] > 0

\* C3: in a delete cascade a jewel is released only when k.Delete of its
\* chart's manifests has returned nil; when that k.Delete fails, none of the
\* chart's jewels is released and the call returns that error.
C3_ReleaseAfterDelete ==
    top.op = "Delete" =>
        \A c \in Charts :
            /\ \A j \in Vaults(c) : did.release[j] > 0 => did.ret[c] = 1
            /\ Err("Delete", c) \in {did.errs[i] : i \in DOMAIN did.errs}
                  => /\ \A j \in Vaults(c) : did.release[j] = 0
                     /\ top.status = "done"
                     /\ top.err = Err("Delete", c)

C3_Witness ==
    /\ top.op = "Delete"
    /\ \E c \in Charts :
          /\ Cardinality(Vaults(c)) >= 2
          /\ did.ret[c] = 1
          /\ \A j \in Vaults(c) : did.release[j] = 1

\* C8: Progress(100) is called at most once per top-level call: once the
\* call has returned nil, and then every chart's hook has run and every
\* chart's submission has returned nil; never while the cascade runs, and
\* never when a call of the cascade returned an error.
C8_ProgressOnlyOnSuccess ==
    /\ did.progress <= 1
    /\ top.status = "running" => did.progress = 0
    /\ did.errs # <<>> => did.progress = 0
    /\ top.status = "done" /\ top.err # Nil => did.progress = 0
    /\ top.status = "done" /\ top.err = Nil => did.progress = 1
    /\ did.progress = 1 =>
          /\ ~Running
          /\ \A c \in Charts : did.hook[c] = 1 /\ did.ret[c] = 1

C8_Witness ==
    /\ top.op = "Delete"
    /\ top.status = "done"
    /\ did.progress = 1

\* C9: once a call of the cascade has returned an error, the cascade has
\* ended: no call is running, no second error was met, the top-level call
\* has returned exactly that error; and a cascade only ever makes the calls
\* of its own direction (an apply issues no delete or release, a delete no
\* read or apply).
C9_FailFastNoRollback ==
    /\ did.errs # <<>> =>
          /\ Len(did.errs) = 1
          /\ ~Running
          /\ top.status = "done"
          /\ top.err = did.errs[1]
    /\ top.op = "Apply" =>
          /\ did.fns \subseteq {"apply"}
          /\ \A j \in Jewels : did.release[j] = 0 /\ did.cleanup[j] = 0
    /\ top.op = "Delete" =>
          /\ did.fns \subseteq {"delete"}
          /\ \A j \in Jewels : did.read[j] = 0

C9_Witness ==
    /\ top.op = "Apply"
    /\ did.errs # <<>>
    /\ did.errs[1].at # 1
    /\ \E c \in Charts : did.ret[c] = 1
    /\ did.sent[1] = 0

\* C10: in an apply cascade a chart's manifests are submitted only when
\* every jewel of the chart has been read; no field of a jewel is accessed,
\* and no backend operation is invoked for it, unless it has been read; and
\* when the read of a jewel fails with an error other than not-found, the
\* chart's manifests are not submitted.
C10_ReadBeforeRender ==
    top.op = "Apply" =>
        \A c \in Charts : \A j \in Vaults(c) :
            /\ did.sent[c] > 0 => did.read[j] = 1
            /\ did.attr[j] \/ did.backend[j] > 0 => did.read[j] = 1
            /\ Err("io", j) \in {did.errs[i] : i \in DOMAIN did.errs}
                  => did.sent[c] = 0 /\ top.err = Err("io", j)

C10_Witness ==
    /\ top.op = "Apply"
    /\ \E c \in Charts :
          /\ Cardinality(Vaults(c)) >= 2
          /\ \A j \in Vaults(c) : did.read[j] = 1 /\ did.attr[j]
          /\ \E j \in Vaults(c) : did.backend[j] = 1

\* ------------------------------------------------- properties of one jewel
Held == jewel[out.j]

EnsureOps == {"ensure", "Attr", "templateValues"}

\* C4 as stated: no operation lowers a jewel's state.
C4_StateNeverRegresses ==
    out.op # "none" => Held.state >= out.pre.state

\* C4: ensure, Attr, templateValues and delete never lower a jewel's state,
\* and no operation returns it to Init; the one step that lowers it is a
\* read that finds the secret, which sets a Ready jewel to Loaded.
C4_StateRegressesOnlyByRead ==
    out.op # "none" =>
        \/ Held.state >= out.pre.state
        \/ /\ out.op = "read"
           /\ out.ans.err = Nil
           /\ out.pre.state = stateReady
           /\ Held.state = stateLoaded

C4_Witness ==
    /\ out.op = "read"
    /\ out.pre.state = stateReady
    /\ Held.state = stateLoaded

\* C5 as stated: the accesses between two reads invoke the backend at most
\* once in total.
C5_AtMostOneBackendCall ==
    calls <= 1

\* C5: between two reads at most one backend call succeeds, and after it the
\* jewel is Ready; a Ready jewel has seen either that one successful call or
\* no backend call at all since the read; on a Ready jewel ensure, Attr and
\* templateValues invoke no backend operation and change nothing; and every
\* successful access to a field returns what the first one returned.
C5_EnsureIdempotent ==
    /\ okCalls <= 1
    /\ \A j \in ScriptJewels :
          /\ okCalls = 1 => jewel[j].state = stateReady
          /\ jewel[j].state = stateReady => okCalls = 1 \/ calls = 0
    /\ out.op \in EnsureOps /\ out.pre.state = stateReady
          => /\ out.bop = "none"
             /\ Held = out.pre
             /\ out.op # "Attr" \/ out.name \in DOMAIN Keys => out.err = Nil
    /\ out.op = "Attr" /\ out.name \in DOMAIN Keys /\ out.err = Nil
          => out.val = got[out.name]

C5_Witness ==
    /\ out.op = "Attr"
    /\ out.name \in DOMAIN Keys
    /\ out.pre.state = stateReady
    /\ out.val = got[out.name]
    /\ out.val.s # ""
    /\ calls = 1
    /\ okCalls = 1

\* C6: read returns nil and leaves state and data as they were (Init stays
\* Init) when the vault answers not-found; stores the payload and sets the
\* state Loaded when the vault answers a payload; returns the error and
\* leaves state and data as they were on any other error.
C6_Read ==
    out.op = "read" =>
        /\ IsNotExist(out.ans.err) => out.err = Nil /\ Held = out.pre
        /\ out.ans.err = Nil
              => /\ out.err = Nil
                 /\ Held = [state |-> stateLoaded, data |-> out.ans.data]
        /\ out.ans.err # Nil /\ ~IsNotExist(out.ans.err)
              => out.err = out.ans.err /\ Held = out.pre

C6_Witness ==
    /\ out.op = "read"
    /\ IsNotExist(out.ans.err)
    /\ out.err = Nil
    /\ Held.state = stateInit

\* C7: when the backend operation ensure invokes returns an error, ensure
\* (and Attr) return that error, the jewel is what it was before, so the next
\* access invokes the same backend operation again, and Attr returns None.
C7_BackendErrorLeavesJewel ==
    out.op \in {"ensure", "Attr"} /\ out.bop # "none" /\ out.ans.err # Nil =>
        /\ out.err = out.ans.err
        /\ Held = out.pre
        /\ ensureOp(Held, backend[out.j]) = out.bop
        /\ out.op = "Attr" => out.val = None

C7_Witness ==
    /\ out.op = "Attr"
    /\ out.bop = "Apply"
    /\ out.ans.err # Nil
    /\ out.pre.state = stateLoaded
    /\ out.pre.data # EmptyData
    /\ out.val = None


\* ------------------------------------------------ properties, second part
\* The chart that holds jewel j in its values.
OwnerOf(j) == CHOOSE c \in Charts : VaultItem(j) \in values[c]

\* C11: in a delete cascade every jewel is released at most once, and only by
\* the chart that holds it, after that chart's k.Delete returned nil; the
\* external cleanup (complex.Delete) is invoked only on a complex backend and
\* at most once; and when the cascade has returned nil, every jewel of the
\* tree was released once, with one cleanup call for each complex backend and
\* none for a simple one.
C11_CleanupExactlyOnce ==
    top.op = "Delete" =>
        \A j \in Jewels :
            /\ did.release[j] <= 1
            /\ did.by[j] \subseteq {OwnerOf(j)}
            /\ did.release[j] > 0 => did.ret[OwnerOf(j)] = 1
            /\ did.cleanup[j] = IF backend[j] = "complex" THEN did.release[j] ELSE 0
            /\ backend[j] = "simple"
                  => Err("cleanup", j) \notin {did.errs[i] : i \in DOMAIN did.errs}
            /\ top.status = "done" /\ top.err = Nil => did.release[j] = 1

C11_Witness ==
    /\ top.op = "Delete"
    /\ top.status = "done"
    /\ top.err = Nil
    /\ \E i, j \in Jewels :
          /\ backend[i] = "simple" /\ did.cleanup[i] = 0
          /\ backend[j] = "complex" /\ did.cleanup[j] = 1
          /\ OwnerOf(j) # 1


\* C15: Attr("name") returns the jewel's name, calls no backend operation and
\* leaves the jewel as it was; Attr(k) for k outside the backend's Keys fails
\* with the no-such-attribute error that names the backend and k, calls no
\* backend operation and leaves the jewel as it was; Attr(k) for a declared k
\* ensures first (a jewel that was not Ready has its backend called, and a
\* nil return leaves it Ready) and then returns the text of the payload held
\* under Keys[k], the empty string when the payload has no such key.
C15_AttrFrame ==
    out.op = "Attr" =>
        /\ out.name = "name" =>
              /\ out.val = String(JewelName(out.j))
              /\ out.err = Nil
              /\ out.bop = "none"
              /\ Held = out.pre
        /\ out.name # "name" /\ out.name \notin DOMAIN Keys =>
              /\ out.err = NoSuchAttrError(backend[out.j], out.name)
              /\ out.val = None
              /\ out.bop = "none"
              /\ Held = out.pre
        /\ out.name \in DOMAIN Keys =>
              /\ out.pre.state # stateReady => out.bop # "none"
              /\ out.err # Nil => out.val = None
              /\ out.err = Nil =>
                    /\ Held.state = stateReady
                    /\ out.val = String(IF Keys[out.name] \in DOMAIN Held.data
                                            THEN Held.data[Keys[out.name]]
                                            ELSE "")

C15_Witness ==
    /\ out.op = "Attr"
    /\ out.name = "user"
    /\ out.pre.state = stateInit
    /\ out.err = Nil
    /\ out.val = String("")
    /\ "pwd" \in DOMAIN Held.data


\* C17: an operation that runs ensure picks the backend operation from the
\* state the jewel was in and the kind of its backend: Loaded calls Apply with
\* the data held, Init calls Template on a complex backend and Apply with the
\* empty payload on a simple one, Ready calls nothing; when the operation
\* called returns nil, its result is the jewel's data and the jewel is Ready.
C17_EnsureDispatch ==
    out.op \in EnsureOps /\ (out.op = "Attr" => out.name \in DOMAIN Keys) =>
        /\ out.pre.state = stateLoaded =>
              out.bop = "Apply" /\ out.barg = out.pre.data
        /\ out.pre.state = stateInit /\ backend[out.j] = "complex" =>
              out.bop = "Template"
        /\ out.pre.state = stateInit /\ backend[out.j] # "complex" =>
              out.bop = "Apply" /\ out.barg = EmptyData
        /\ out.pre.state = stateReady => out.bop = "none"
        /\ out.bop # "none" /\ out.ans.err = Nil =>
              Held = [state |-> stateReady, data |-> out.ans.data]

C17_Witness ==
    /\ out.op = "ensure"
    /\ out.pre.state = stateLoaded
    /\ out.pre.data # EmptyData
    /\ backend[out.j] = "complex"
    /\ out.bop = "Apply"
    /\ out.ans.err = Nil
    /\ Held.state = stateReady
    /\ Held.data # out.pre.data


\* C19 as stated: templateValues returns a mapping over exactly the declared
\* field names, each mapped to the text of the payload the jewel holds under
\* the field's key ("" when it holds none), and the jewel is Ready afterwards.
C19_TemplateValuesReady ==
    out.op = "templateValues" =>
        /\ DOMAIN out.vals = DOMAIN Keys
        /\ \A k \in DOMAIN Keys :
              out.vals[k] = IF Keys[k] \in DOMAIN Held.data
                               THEN Held.data[Keys[k]] ELSE ""
        /\ Held.state = stateReady


\* C18 as stated: over the apply cycles of a jewel (a read, then accesses),
\* with a backend that never failed, at most one backend call was Template or
\* Apply with an empty payload, and none when the first read found the secret.
C18_GeneratedAtMostOnce ==
    ~life.failed /\ ~life.early =>
        /\ life.empties <= 1
        /\ life.empties > 0 => life.first # "found"

\* C18, amended: over the apply cycles of a jewel, with a backend that never
\* failed, ensure called the backend at most once while the jewel held
\* nothing (stateInit), and never when the first read found the secret; an
\* access to a jewel that holds something calls nothing, or calls Apply with
\* the data held, and the jewel's data afterwards is the data it held or what
\* that Apply returned.
C18_GeneratedOnceFromInit ==
    /\ ~life.failed => life.gens <= 1
    /\ ~life.early /\ life.gens > 0 => life.first # "found"
    /\ out.op \in EnsureOps /\ out.pre.state # stateInit =>
          /\ out.bop \in {"none", "Apply"}
          /\ out.bop = "Apply" => out.barg = out.pre.data
          /\ Held.data = IF out.bop = "Apply" /\ out.ans.err = Nil
                             THEN out.ans.data ELSE out.pre.data

\* A second cycle: the first read found nothing, the jewel was generated
\* once, a later read found the secret and the access applied the data read.
C18_Witness ==
    /\ ~life.failed
    /\ ~life.early
    /\ life.first = "missing"
    /\ life.gens = 1
    /\ out.op = "Attr"
    /\ out.name = "password"
    /\ out.pre.state = stateLoaded
    /\ out.bop = "Apply"
    /\ out.barg # EmptyData
    /\ out.err = Nil


Reserved == {"namespace", "name", "__class__"}

\* C12: after any SetField calls, Attr(n) of a reserved name returns the
\* chart's namespace, GetName() or class handle whatever is stored under n;
\* of another name it returns the value last stored under it (a mapping comes
\* back in the sandbox's wrapper), else the method registered under it, else
\* the no-such-attribute error naming n. SetField returns nil, stores the
\* value under its name and changes no other entry and no other field.
C12_AttrResolution ==
    /\ ret.op = "Attr" =>
          /\ ret.name = "namespace" => ret.err = Nil /\ ret.val = Str(chart.namespace)
          /\ ret.name = "name" =>
                /\ ret.err = Nil
                /\ ret.val = Str(IF chart.suffix = "" THEN "app" ELSE "app-" \o chart.suffix)
          /\ ret.name = "__class__" => ret.err = Nil /\ ret.val = Class("app")
          /\ ret.name \notin Reserved /\ ret.name \in DOMAIN ret.last =>
                /\ ret.err = Nil
                /\ ret.val.kind # "dict"
                /\ unwrapDict(ret.val) = unwrapDict(ret.last[ret.name])
          /\ ret.name \notin Reserved \cup DOMAIN ret.last /\ ret.name \in Methods =>
                ret.err = Nil /\ ret.val = Builtin(ret.name)
          /\ ret.name \notin Reserved \cup DOMAIN ret.last \cup Methods =>
                ret.err = NoSuchAttrError("chart", ret.name) /\ ret.val = NilValue
    /\ ret.op = "SetField" =>
          /\ ret.err = Nil
          /\ chart.values[ret.name] = unwrapDict(ret.arg)
          /\ \A n \in DOMAIN ret.pre.values \ {ret.name} :
                chart.values[n] = ret.pre.values[n]
          /\ [chart EXCEPT !.values = NoValues] = [ret.pre EXCEPT !.values = NoValues]

\* Attr("name") after a value was stored under "name".
C12_Witness ==
    /\ ret.op = "Attr"
    /\ ret.name = "name"
    /\ "name" \in DOMAIN chart.values
    /\ "apply" \in DOMAIN chart.values
    /\ ret.val = Str("app-blue")


\* C13 as stated: the number Hash returns for a chart whose values are all
\* hashable is the number it returns for every other order in which the
\* range loop can visit the values.
C13_HashOrderIndependent ==
    ret.op = "Hash" /\ ret.err = Nil =>
        \A order \in Orders(DOMAIN chart.values) : Hash(chart, order).h = ret.h


\* mergeValues(o1) and then mergeValues(o2) on the chart pre2 left it as one
\* mergeValues(merge(o1, o2)) leaves it.
Layered(pre2, o1, o2) == chart = mergeValues(pre2, merge(o1, o2))

\* Some path holds a mapping in v and in o2 and a value that is no mapping in
\* o1.
RECURSIVE Clash(_, _, _)
Clash(v, o1, o2) ==
    IF ~IsMapping(o2) \/ o1.kind = "nil" \/ ~IsMapping(v) THEN FALSE
    ELSE IF ~IsMapping(o1) THEN TRUE
    ELSE \E k \in DOMAIN v.d \cap DOMAIN o1.d \cap DOMAIN o2.d :
            Clash(v.d[k], o1.d[k], o2.d[k])

\* C14 as stated: two mergeValues calls in a row leave the chart with the
\* values one call with the merged override trees leaves it with.
C14_LayeringAssociative ==
    ret.op = "mergeValues" /\ ret.n >= 2 => Layered(ret.pre2, ret.arg2, ret.arg)

\* C14, amended: two mergeValues calls in a row leave the chart with the
\* values one call with the merged override trees leaves it with, unless some
\* path holds a mapping in the chart and in the second tree and a value that
\* is no mapping in the first; one mergeValues call puts at each key of the
\* override the merge of the value the chart held there with the override's
\* value (a mapping merged key by key, anything else replaced) and leaves
\* every other key as it was.
C14_LayeringWithoutClash ==
    ret.op = "mergeValues" =>
        /\ ret.n >= 2 /\ ~Clash(Dict(ret.pre2.values), ret.arg2, ret.arg)
              => Layered(ret.pre2, ret.arg2, ret.arg)
        /\ DOMAIN chart.values = DOMAIN ret.pre.values \cup DOMAIN ret.arg.d
        /\ \A k \in DOMAIN ret.pre.values \ DOMAIN ret.arg.d :
              chart.values[k] = ret.pre.values[k]
        /\ \A k \in DOMAIN ret.arg.d :
              LET old == At(ret.pre.values, k)
                  new == toStarlark(ret.arg.d[k])
              IN  IF IsMapping(old) /\ IsMapping(new)
                     THEN /\ IsMapping(chart.values[k])
                          /\ DOMAIN chart.values[k].d = DOMAIN old.d \cup DOMAIN new.d
                          /\ \A i \in DOMAIN new.d :
                                ~(IsMapping(At(old.d, i)) /\ IsMapping(new.d[i]))
                                    => chart.values[k].d[i] = new.d[i]
                          /\ \A i \in DOMAIN old.d \ DOMAIN new.d :
                                chart.values[k].d[i] = old.d[i]
                     ELSE chart.values[k] = new

\* merge({a:1, b:{x:1}}, {b:{y:2}, c:3}) = {a:1, b:{x:1, y:2}, c:3}, reached as
\* the second of two mergeValues calls.
C14_Witness ==
    /\ ret.op = "mergeValues"
    /\ ret.n = 2
    /\ ret.pre.values = [a |-> MakeInt("1"), b |-> Dict([x |-> MakeInt("1")])]
    /\ ret.arg = GoMap([b |-> GoMap([y |-> GoInt("2")]), c |-> GoInt("3")])
    /\ chart.values = [a |-> MakeInt("1"),
                       b |-> Dict([x |-> MakeInt("1"), y |-> MakeInt("2")]),
                       c |-> MakeInt("3")]
    /\ Layered(ret.pre2, ret.arg2, ret.arg)


C20_NamespacedForcedFalse ==
    /\ \A o \in did.opts :
          /\ o.Namespaced = FALSE
          /\ o.Timeout = did.given.Timeout
    /\ (\E c \in Charts : did.sent[c] > 0) => did.opts # {}
    /\ top.op \in {"Apply", "Delete"} => did.given = ZeroOptions

\* __delete called with Namespaced = true and a timeout: the client got the
\* timeout and Namespaced = false, and no sub-chart was called.
C20_Witness ==
    /\ top.op = "__delete"
    /\ top.status = "done"
    /\ did.given = [Namespaced |-> TRUE, Timeout |-> 30]
    /\ did.ret[1] = 1
    /\ did.opts = {[Namespaced |-> FALSE, Timeout |-> 30]}
    /\ \A c \in Charts \ {1} : did.hook[c] = 0

====
